---------------------------- MODULE Spec2Model ----------------------------
(***************************************************************************)
(* A model of pm1-control-model: the chassis conversions (model.rs), the   *)
(* speed optimizer (optimizer.rs), the status and trajectory predictors    *)
(* (predict.rs) and the odometry record (odometry.rs).                     *)
(*                                                                         *)
(* Numbers.  An f32 is modelled by its exact value: a pair <<n, d>> that   *)
(* is a fraction in lowest terms with d > 0, or one of the IEEE specials   *)
(*     <<0, 1>> = +0.0     <<0, -1>> = -0.0                                *)
(*     <<1, 0>> = +inf     <<-1, 0>> = -inf      <<0, 0>> = NaN            *)
(* Arithmetic is exact (no rounding); signs of zero, infinities and NaN    *)
(* follow IEEE 754.                                                        *)
(* Each operation F comes as FV, its value on evaluated operands, and F,   *)
(* which evaluates each operand once and applies FV, as Rust evaluates the *)
(* arguments of a call before the call.                                    *)
(*                                                                         *)
(* Angles.  The predictor and the optimizer do linear arithmetic on the    *)
(* rudder; there the rudder is a number in units of pi/12 rad, so that     *)
(* FRAC_PI_6, FRAC_PI_3 and FRAC_PI_2 are exact.  The chassis model only   *)
(* takes sin, tan and atan2 of a rudder; there the rudder is held as the   *)
(* direction <<x, y>> of the angle (the primitive integer vector with      *)
(* atan2(y, x) = rudder), <<0, 0>> being NaN, which keeps sin, tan and     *)
(* atan2 exact.                                                            *)
(***************************************************************************)
EXTENDS Integers, Sequences, FiniteSets, TLC

-----------------------------------------------------------------------------
(* Integer helpers *)

AbsI(i) == IF i < 0 THEN -i ELSE i

SignI(i) == IF i < 0 THEN -1 ELSE 1

RECURSIVE GCD(_, _)
GCD(a, b) == IF b = 0 THEN a ELSE GCD(b, a % b)

RECURSIVE SqrtSearch(_, _, _)
SqrtSearch(n, lo, hi) ==
    IF lo >= hi THEN lo
    ELSE LET mid == (lo + hi + 1) \div 2
         IN  IF mid * mid <= n THEN SqrtSearch(n, mid, hi)
                               ELSE SqrtSearch(n, lo, mid - 1)

\* floor of the square root of n >= 0
ISqrt(n) == SqrtSearch(n, 0, IF n < 46340 THEN n ELSE 46340)

-----------------------------------------------------------------------------
(* f32 values and their arithmetic *)

NaN == <<0, 0>>
PInf == <<1, 0>>
NInf == <<-1, 0>>
PZero == <<0, 1>>
NZero == <<0, -1>>
One == <<1, 1>>
Two == <<2, 1>>

\* the fraction n/d (d # 0) in lowest terms; a zero takes the sign of d
Q(n, d) ==
    IF n = 0 THEN <<0, SignI(d)>>
    ELSE LET g == GCD(AbsI(n), AbsI(d))
         IN  <<SignI(d) * (n \div g), AbsI(d) \div g>>

IsNaN(x) == x = NaN
IsInf(x) == x[2] = 0 /\ x[1] # 0
IsZero(x) == x[1] = 0 /\ x[2] # 0
IsFinite(x) == x[2] # 0

\* the sign bit of a non-NaN value: +1 or -1
Sgn(x) == IF x[1] = 0 THEN x[2] ELSE SignI(x[1])

\* - x
FNegV(x) ==
    IF IsNaN(x) THEN NaN
    ELSE IF IsZero(x) THEN <<0, -x[2]>>
    ELSE <<-x[1], x[2]>>

FNeg(y) == CHOOSE r \in {FNegV(x) : x \in {y}} : TRUE

\* f32::abs
FAbsV(x) == IF IsNaN(x) THEN NaN ELSE IF Sgn(x) < 0 THEN FNeg(x) ELSE x

FAbs(y) == CHOOSE r \in {FAbsV(x) : x \in {y}} : TRUE

\* a + b
FAddV(a, b) ==
    IF IsNaN(a) \/ IsNaN(b) THEN NaN
    ELSE IF IsInf(a) THEN (IF IsInf(b) /\ b # a THEN NaN ELSE a)
    ELSE IF IsInf(b) THEN b
    ELSE IF IsZero(a) /\ IsZero(b) THEN (IF a = NZero /\ b = NZero THEN NZero ELSE PZero)
    ELSE IF IsZero(a) THEN b
    ELSE IF IsZero(b) THEN a
    ELSE LET g == GCD(a[2], b[2])
             n == a[1] * (b[2] \div g) + b[1] * (a[2] \div g)
         IN  IF n = 0 THEN PZero ELSE Q(n, (a[2] \div g) * b[2])

FAdd(x, y) == CHOOSE r \in {FAddV(a, b) : a \in {x}, b \in {y}} : TRUE

\* a - b
FSub(a, b) == FAdd(a, FNeg(b))

\* a * b
FMulV(a, b) ==
    IF IsNaN(a) \/ IsNaN(b) THEN NaN
    ELSE IF (IsInf(a) /\ IsZero(b)) \/ (IsZero(a) /\ IsInf(b)) THEN NaN
    ELSE IF IsInf(a) \/ IsInf(b) THEN <<Sgn(a) * Sgn(b), 0>>
    ELSE IF IsZero(a) \/ IsZero(b) THEN <<0, Sgn(a) * Sgn(b)>>
    ELSE LET g1 == GCD(AbsI(a[1]), b[2])
             g2 == GCD(AbsI(b[1]), a[2])
         IN  Q((a[1] \div g1) * (b[1] \div g2), (a[2] \div g2) * (b[2] \div g1))

FMul(x, y) == CHOOSE r \in {FMulV(a, b) : a \in {x}, b \in {y}} : TRUE

\* a / b
FDivV(a, b) ==
    IF IsNaN(a) \/ IsNaN(b) THEN NaN
    ELSE IF (IsInf(a) /\ IsInf(b)) \/ (IsZero(a) /\ IsZero(b)) THEN NaN
    ELSE IF IsInf(a) \/ IsZero(b) THEN <<Sgn(a) * Sgn(b), 0>>
    ELSE IF IsZero(a) \/ IsInf(b) THEN <<0, Sgn(a) * Sgn(b)>>
    ELSE LET g1 == GCD(AbsI(a[1]), AbsI(b[1]))
             g2 == GCD(a[2], b[2])
         IN  Q((a[1] \div g1) * (b[2] \div g2), (a[2] \div g2) * (b[1] \div g1))

FDiv(x, y) == CHOOSE r \in {FDivV(a, b) : a \in {x}, b \in {y}} : TRUE

\* n1/d1 < n2/d2 for n1, n2 >= 0 and d1, d2 > 0, by whole parts and then
\* the remainders (no product is formed)
RECURSIVE FracLt(_, _, _, _)
FracLt(n1, d1, n2, d2) ==
    IF n1 \div d1 # n2 \div d2 THEN n1 \div d1 < n2 \div d2
    ELSE IF n1 % d1 = 0 THEN n2 % d2 # 0
    ELSE IF n2 % d2 = 0 THEN FALSE
    ELSE FracLt(d2, n2 % d2, d1, n1 % d1)

\* a == b on f32: +0.0 == -0.0, NaN equals nothing
FEqV(a, b) ==
    /\ ~IsNaN(a)
    /\ ~IsNaN(b)
    /\ \/ a = b
       \/ IsZero(a) /\ IsZero(b)

FEq(x, y) == CHOOSE r \in {FEqV(a, b) : a \in {x}, b \in {y}} : TRUE

\* a < b on f32 (false when either is NaN)
FLtV(a, b) ==
    /\ ~IsNaN(a)
    /\ ~IsNaN(b)
    /\ ~FEq(a, b)
    /\ IF IsInf(a) THEN a = NInf
       ELSE IF IsInf(b) THEN b = PInf
       ELSE IF a[1] < 0 /\ b[1] < 0 THEN FracLt(-b[1], b[2], -a[1], a[2])
       ELSE IF a[1] < 0 \/ b[1] < 0 THEN a[1] < 0
       ELSE FracLt(a[1], AbsI(a[2]), b[1], AbsI(b[2]))

FLt(x, y) == CHOOSE r \in {FLtV(a, b) : a \in {x}, b \in {y}} : TRUE

FLe(a, b) == FLt(a, b) \/ FEq(a, b)

\* f32::partial_cmp, of a against b
PartialCmpV(a, b) ==
    IF IsNaN(a) \/ IsNaN(b) THEN "None"
    ELSE IF FEq(a, b) THEN "Equal"
    ELSE IF FLt(a, b) THEN "Less"
    ELSE "Greater"

PartialCmp(x, y) == CHOOSE r \in {PartialCmpV(a, b) : a \in {x}, b \in {y}} : TRUE

\* f32::max and f32::min: a NaN operand is ignored
FMaxV(a, b) == IF IsNaN(a) THEN b ELSE IF IsNaN(b) THEN a ELSE IF FLt(a, b) THEN b ELSE a

FMax(x, y) == CHOOSE r \in {FMaxV(a, b) : a \in {x}, b \in {y}} : TRUE

FMinV(a, b) == IF IsNaN(a) THEN b ELSE IF IsNaN(b) THEN a ELSE IF FLt(b, a) THEN b ELSE a

FMin(x, y) == CHOOSE r \in {FMinV(a, b) : a \in {x}, b \in {y}} : TRUE

\* f32::signum: 1.0 or -1.0 by the sign bit, NaN for NaN
FSignum(x) == IF IsNaN(x) THEN NaN ELSE <<Sgn(x), 1>>

\* the square root of a finite x >= 0: exact when x is the square of a
\* fraction, else rounded down to a multiple of 1/100 of the denominator
FSqrt(x) ==
    IF IsZero(x) THEN x
    ELSE LET rn == ISqrt(x[1])
             rd == ISqrt(x[2])
         IN  IF rn * rn = x[1] /\ rd * rd = x[2] THEN Q(rn, rd)
             ELSE Q(ISqrt(x[1] * x[2] * 10000), x[2] * 100)

-----------------------------------------------------------------------------
(* Angles held as directions *)

\* the direction of the vector (x, y), not both 0
Dir(x, y) == LET g == GCD(AbsI(x), AbsI(y)) IN <<x \div g, y \div g>>

DirZero == <<1, 0>>

\* f32::atan2, y.atan2(x), for finite or NaN arguments
Atan2(y, x) ==
    IF IsNaN(y) \/ IsNaN(x) THEN NaN
    ELSE IF IsZero(y) /\ IsZero(x) THEN (IF Sgn(x) > 0 THEN DirZero ELSE <<-1, 0>>)
    ELSE Dir(x[1] * AbsI(y[2]), y[1] * AbsI(x[2]))

\* f32::tan
DTan(a) ==
    IF IsNaN(a) THEN NaN
    ELSE IF a[1] = 0 THEN <<a[2], 0>>
    ELSE Q(a[2], a[1])

\* f32::sin
DSin(a) ==
    IF IsNaN(a) THEN NaN
    ELSE FDiv(Q(a[2], 1), FSqrt(Q(a[1] * a[1] + a[2] * a[2], 1)))

\* f32::abs of an angle
DAbs(a) == <<a[1], AbsI(a[2])>>

\* a < b for angles in (-pi, pi]
DLt(a, b) ==
    /\ ~IsNaN(a)
    /\ ~IsNaN(b)
    /\ a # b
    /\ LET upA == a[2] > 0 \/ (a[2] = 0 /\ a[1] < 0) \/ a = DirZero
           upB == b[2] > 0 \/ (b[2] = 0 /\ b[1] < 0) \/ b = DirZero
           cross == a[1] * b[2] - a[2] * b[1]
       IN  IF upA # upB THEN upB
           ELSE IF cross # 0 THEN cross > 0
           ELSE a[1] > b[1]

-----------------------------------------------------------------------------
(* model.rs: the chassis model.  A Physical is [speed, rudder], a Velocity *)
(* is [v, w], a Wheels is [left, right]; rudders are directions here.      *)

\* ChassisModel::new
ChassisModel_new(width, length, wheel) ==
    [ width  |-> width,
      length |-> length,
      wheel  |-> wheel,
      critical_rudder |->
          Atan2(FSub(FDiv(FMul(length, length), width), FDiv(width, Two)), length) ]

\* Physical::RELEASED and Physical::ZERO, with the rudder as a direction
ReleasedDir == [speed |-> PZero, rudder |-> NaN]

ZeroDir == [speed |-> PZero, rudder |-> DirZero]

\* physical_to_velocity with the turning radii taken positive for a
\* positive rudder
physical_to_velocity_unsigned(self, physical) ==
    IF IsNaN(physical.rudder) THEN [v |-> PZero, w |-> PZero]
    ELSE IF physical.rudder = DirZero THEN [v |-> physical.speed, w |-> PZero]
    ELSE LET r_chassis == FDiv(self.length, DTan(physical.rudder))
             w == IF DLt(self.critical_rudder, DAbs(physical.rudder))
                  THEN LET r_rudder == FDiv(self.length, DSin(physical.rudder))
                       IN  FDiv(physical.speed, r_rudder)
                  ELSE IF DLt(DirZero, physical.rudder)
                  THEN FDiv(physical.speed, FAdd(r_chassis, FDiv(self.width, Two)))
                  ELSE FDiv(physical.speed, FSub(r_chassis, FDiv(self.width, Two)))
         IN  [v |-> FMul(w, r_chassis), w |-> w]

\* ChassisModel::physical_to_velocity
physical_to_velocity(self, physical) ==
    IF IsNaN(physical.rudder) THEN [v |-> PZero, w |-> PZero]
    ELSE IF physical.rudder = DirZero THEN [v |-> physical.speed, w |-> PZero]
    ELSE LET r_chassis == FDiv(FNeg(self.length), DTan(physical.rudder))
             w == IF DLt(self.critical_rudder, DAbs(physical.rudder))
                  THEN LET r_rudder == FDiv(FNeg(self.length), DSin(physical.rudder))
                       IN  FDiv(physical.speed, r_rudder)
                  ELSE IF DLt(DirZero, physical.rudder)
                  THEN FDiv(physical.speed, FSub(r_chassis, FDiv(self.width, Two)))
                  ELSE FDiv(physical.speed, FAdd(r_chassis, FDiv(self.width, Two)))
         IN  [v |-> FMul(w, r_chassis), w |-> w]

\* velocity_to_physical with the rudder taken as atan2(length, r_chassis),
\* without the sign handling
velocity_to_physical_plain_atan2(self, velocity) ==
    IF FEq(velocity.w, PZero)
    THEN IF FEq(velocity.v, PZero) THEN ReleasedDir
         ELSE [speed |-> velocity.v, rudder |-> DirZero]
    ELSE LET r_chassis == FDiv(velocity.v, velocity.w)
             rudder == Atan2(self.length, r_chassis)
             speed == FMul(velocity.w,
                           IF DLt(self.critical_rudder, DAbs(rudder))
                           THEN FDiv(FNeg(self.length), DSin(rudder))
                           ELSE IF DLt(DirZero, rudder)
                           THEN FSub(r_chassis, FDiv(self.width, Two))
                           ELSE FAdd(r_chassis, FDiv(self.width, Two)))
         IN  [speed |-> speed, rudder |-> rudder]

\* velocity_to_physical returning Physical::ZERO for the twist (0, 0)
velocity_to_physical_zero(self, velocity) ==
    IF FEq(velocity.w, PZero)
    THEN [speed |-> velocity.v, rudder |-> DirZero]
    ELSE LET r_chassis == FDiv(velocity.v, velocity.w)
             rudder == Atan2(FMul(FSignum(r_chassis), FNeg(self.length)), FAbs(r_chassis))
             speed == FMul(velocity.w,
                           IF DLt(self.critical_rudder, DAbs(rudder))
                           THEN FDiv(FNeg(self.length), DSin(rudder))
                           ELSE IF DLt(DirZero, rudder)
                           THEN FSub(r_chassis, FDiv(self.width, Two))
                           ELSE FAdd(r_chassis, FDiv(self.width, Two)))
         IN  [speed |-> speed, rudder |-> rudder]

\* ChassisModel::velocity_to_physical
velocity_to_physical(self, velocity) ==
    IF FEq(velocity.w, PZero)
    THEN IF FEq(velocity.v, PZero) THEN ReleasedDir
         ELSE [speed |-> velocity.v, rudder |-> DirZero]
    ELSE LET r_chassis == FDiv(velocity.v, velocity.w)
             rudder == Atan2(FMul(FSignum(r_chassis), FNeg(self.length)), FAbs(r_chassis))
             speed == FMul(velocity.w,
                           IF DLt(self.critical_rudder, DAbs(rudder))
                           THEN FDiv(FNeg(self.length), DSin(rudder))
                           ELSE IF DLt(DirZero, rudder)
                           THEN FSub(r_chassis, FDiv(self.width, Two))
                           ELSE FAdd(r_chassis, FDiv(self.width, Two)))
         IN  [speed |-> speed, rudder |-> rudder]

\* ChassisModel::wheels_to_velocity
wheels_to_velocity(self, wheels) ==
    [ v |-> FDiv(FMul(FAdd(wheels.right, wheels.left), self.wheel), Two),
      w |-> FDiv(FMul(FSub(wheels.right, wheels.left), self.wheel), self.width) ]

\* ChassisModel::velocity_to_wheels
velocity_to_wheels(self, velocity) ==
    [ left  |-> FDiv(FSub(velocity.v, FMul(FDiv(self.width, Two), velocity.w)), self.wheel),
      right |-> FDiv(FAdd(velocity.v, FMul(FDiv(self.width, Two), velocity.w)), self.wheel) ]

\* ChassisModel::physical_to_wheels
physical_to_wheels(self, physical) ==
    velocity_to_wheels(self, physical_to_velocity(self, physical))

\* ChassisModel::wheels_to_physical
wheels_to_physical(self, wheels) ==
    velocity_to_physical(self, wheels_to_velocity(self, wheels))

\* f32::EPSILON = 2^-23
EPSILON == <<1, 8388608>>

\* the tests' float_equal
float_equal(a, b) ==
    \/ IsNaN(a) /\ IsNaN(b)
    \/ FLe(FAbs(FSub(a, b)), EPSILON)

-----------------------------------------------------------------------------
(* optimizer.rs.  In the optimizer and the predictors a Physical is        *)
(* [speed, rudder] with the rudder a number in units of pi/12 rad.         *)

FRAC_PI_6 == <<2, 1>>
FRAC_PI_3 == <<4, 1>>
FRAC_PI_2 == <<6, 1>>

\* Physical::RELEASED and Physical::ZERO
RELEASED == [speed |-> PZero, rudder |-> NaN]

ZERO == [speed |-> PZero, rudder |-> PZero]

\* Physical::is_released and Physical::is_static
is_released(p) == IsNaN(p.rudder)

is_static(p) == FEq(p.speed, PZero)

\* Physical's ==, field by field on f32
PhysicalEq(a, b) == FEq(a.speed, b.speed) /\ FEq(a.rudder, b.rudder)

\* Optimizer::new
Optimizer_new(angular_attenuation, acceleration, period) ==
    [ angular_attenuation |-> angular_attenuation,
      speed_step |-> FMul(acceleration, period) ]

\* step_limited that never moves down
step_limited_stuck(current, step, target) ==
    IF PartialCmp(target, current) = "Greater"
    THEN FMin(FAdd(current, step), target)
    ELSE current

\* step_limited that jumps to the target
step_limited_jump(current, step, target) ==
    IF PartialCmp(target, current) \in {"Equal", "None"} THEN current ELSE target

\* step_limited that takes the whole step even past the target
step_limited_overshoot(current, step, target) ==
    CASE PartialCmp(target, current) \in {"Equal", "None"} -> current
      [] PartialCmp(target, current) = "Less" -> FSub(current, step)
      [] PartialCmp(target, current) = "Greater" -> FAdd(current, step)

\* step_limited
step_limited(current, step, target) ==
    CASE PartialCmp(target, current) \in {"Equal", "None"} -> current
      [] PartialCmp(target, current) = "Less" -> FMax(FSub(current, step), target)
      [] PartialCmp(target, current) = "Greater" -> FMin(FAdd(current, step), target)

\* the local width of Optimizer::optimize_speed: the rudder mismatch the
\* current speed tolerates
optimize_speed_width(current) == FAdd(FMul(current.speed, FRAC_PI_3), FRAC_PI_6)

\* the local diff of Optimizer::optimize_speed
optimize_speed_diff(target, current) == FAbs(FSub(target.rudder, current.rudder))

\* that factor without the window on the rudder mismatch
optimize_speed_factor_turn_only(self, target, current) ==
    FAdd(FMul(FSub(One, FDiv(FAbs(target.rudder), FRAC_PI_2)),
              FSub(One, self.angular_attenuation)),
         self.angular_attenuation)

\* the factor Optimizer::optimize_speed multiplies the speed by when the
\* target has a rudder: the window on the mismatch times the limit on turns
optimize_speed_factor(self, target, current) ==
    FMul(FMax(PZero, FSub(One, FDiv(optimize_speed_diff(target, current),
                                    optimize_speed_width(current)))),
         FAdd(FMul(FSub(One, FDiv(FAbs(target.rudder), FRAC_PI_2)),
                   FSub(One, self.angular_attenuation)),
              self.angular_attenuation))

\* the speed Optimizer::optimize_speed aims at, before the step limit
attenuated_speed(self, target, current) ==
    IF ~IsNaN(target.rudder)
    THEN FMul(target.speed, optimize_speed_factor(self, target, current))
    ELSE target.speed

\* Optimizer::optimize_speed
optimize_speed(self, target, current) ==
    step_limited(current.speed, self.speed_step, attenuated_speed(self, target, current))

-----------------------------------------------------------------------------
(* predict.rs: StatusPredictor.  self is [rudder_step, optimizer, current, *)
(* target]; an Option<Physical> is [some, val].                            *)

None == [some |-> FALSE, val |-> RELEASED]

Some(p) == [some |-> TRUE, val |-> p]

\* StatusPredictor::new; rudder_step is period.as_secs_f32() rad, given in
\* angle units
StatusPredictor_new(optimizer, rudder_step) ==
    [ rudder_step |-> rudder_step,
      optimizer   |-> optimizer,
      current     |-> ZERO,
      target      |-> RELEASED ]

\* StatusPredictor::optimize_speed
StatusPredictor_optimize_speed(self) ==
    optimize_speed(self.optimizer, self.target, self.current)

\* StatusPredictor::optimize_rudder
StatusPredictor_optimize_rudder(self) ==
    step_limited(self.current.rudder, self.rudder_step, self.target.rudder)

\* the assignment to current in StatusPredictor::next
StatusPredictor_update(self) ==
    [self EXCEPT !.current = [ speed  |-> StatusPredictor_optimize_speed(self),
                               rudder |-> StatusPredictor_optimize_rudder(self) ]]

\* StatusPredictor::next ending as soon as the target is released
StatusPredictor_next_released_only(self) ==
    IF is_released(self.target)
    THEN [self |-> self, ret |-> None]
    ELSE LET after == IF ~PhysicalEq(self.current, self.target)
                      THEN StatusPredictor_update(self)
                      ELSE self
         IN  [self |-> after, ret |-> Some(after.current)]

\* StatusPredictor::next: the predictor after the call and the value returned
StatusPredictor_next(self) ==
    IF is_released(self.target) /\ is_static(self.current)
    THEN [self |-> self, ret |-> None]
    ELSE LET after == IF ~PhysicalEq(self.current, self.target)
                      THEN StatusPredictor_update(self)
                      ELSE self
         IN  [self |-> after, ret |-> Some(after.current)]

-----------------------------------------------------------------------------
(* odometry.rs.  An Odometry is [s, a, pose]; a pose (nalgebra's           *)
(* Isometry2<f32>) is [x, y, re, im]: the translation vector and the       *)
(* rotation as a unit complex number.                                      *)

\* theta / 2 for a finite theta, rounded to a multiple of 1/1200
HalfAngle(theta) ==
    IF IsZero(theta) THEN theta
    ELSE Q((1200 * theta[1] + theta[2]) \div (2 * theta[2]), 1200)

\* f32::cos and f32::sin of an angle in radians, by the rational point of
\* the unit circle whose half-angle tangent is HalfAngle(theta)
Cos(theta) ==
    LET t == HalfAngle(theta)
    IN  FDiv(FSub(One, FMul(t, t)), FAdd(One, FMul(t, t)))

Sin(theta) ==
    LET t == HalfAngle(theta)
    IN  FDiv(FMul(Two, t), FAdd(One, FMul(t, t)))

\* Isometry2::new(translation, angle)
Isometry2_new(translation, angle) ==
    [x |-> translation[1], y |-> translation[2], re |-> Cos(angle), im |-> Sin(angle)]

\* Isometry2 * Isometry2: rotate the right translation, add, compose rotations
Isometry2_mul(p, q) ==
    [ x  |-> FAdd(p.x, FSub(FMul(p.re, q.x), FMul(p.im, q.y))),
      y  |-> FAdd(p.y, FAdd(FMul(p.im, q.x), FMul(p.re, q.y))),
      re |-> FSub(FMul(p.re, q.re), FMul(p.im, q.im)),
      im |-> FAdd(FMul(p.re, q.im), FMul(p.im, q.re)) ]

\* Odometry::ZERO
Odometry_ZERO ==
    [s |-> PZero, a |-> PZero, pose |-> [x |-> PZero, y |-> PZero, re |-> One, im |-> PZero]]

\* From<Velocity> for Odometry keeping the sign of the distance
Odometry_from_signed(vel) ==
    LET s == vel.v
        theta == vel.w
        a == FAbs(theta)
    IN  [ s |-> s,
          a |-> a,
          pose |-> Isometry2_new(
                       IF FLt(a, EPSILON) THEN <<s, PZero>>
                       ELSE <<FMul(Sin(theta), FDiv(s, theta)),
                              FMul(FSub(One, Cos(theta)), FDiv(s, theta))>>,
                       theta) ]

\* From<Velocity> for Odometry
Odometry_from(vel) ==
    LET s == vel.v
        theta == vel.w
        a == FAbs(theta)
    IN  [ s |-> FAbs(s),
          a |-> a,
          pose |-> Isometry2_new(
                       IF FLt(a, EPSILON) THEN <<s, PZero>>
                       ELSE <<FMul(Sin(theta), FDiv(s, theta)),
                              FMul(FSub(One, Cos(theta)), FDiv(s, theta))>>,
                       theta) ]

\* AddAssign for Odometry: self after self += rhs
Odometry_add_assign(self, rhs) ==
    [ s |-> FAdd(self.s, rhs.s),
      a |-> FAdd(self.a, rhs.a),
      pose |-> Isometry2_mul(self.pose, rhs.pose) ]

\* Add for Odometry: the value of self + rhs
Odometry_add(self, rhs) ==
    LET copy == self
    IN  Odometry_add_assign(copy, rhs)

\* Odometry's ==, field by field on f32
OdometryEq(p, q) ==
    /\ FEq(p.s, q.s)
    /\ FEq(p.a, q.a)
    /\ FEq(p.pose.x, q.pose.x)
    /\ FEq(p.pose.y, q.pose.y)
    /\ FEq(p.pose.re, q.pose.re)
    /\ FEq(p.pose.im, q.pose.im)

\* ChassisModel::physical_to_odometry
physical_to_odometry(self, physical) ==
    Odometry_from(physical_to_velocity(self, physical))

-----------------------------------------------------------------------------
(* predict.rs: TrajectoryPredictor.  self is [period, model, predictor];   *)
(* an Option<(Duration, Odometry)> is [some, duration, odometry].          *)

\* the direction of a rudder held in units of pi/12: cos and sin of the
\* multiples of pi/12 up to pi/2, by rational points of the unit circle
\* within two degrees of them
RudderDir(rudder) ==
    IF IsNaN(rudder) THEN NaN
    ELSE LET k == AbsI(rudder[1])
             d == CASE k = 0 -> <<1, 0>>
                    [] k = 1 -> <<63, 16>>
                    [] k = 2 -> <<15, 8>>
                    [] k = 3 -> <<21, 20>>
                    [] k = 4 -> <<8, 15>>
                    [] k = 5 -> <<16, 63>>
                    [] k = 6 -> <<0, 1>>
         IN  <<d[1], SignI(rudder[1]) * d[2]>>

NoneTraj == [some |-> FALSE, duration |-> PZero, odometry |-> Odometry_ZERO]

\* TrajectoryPredictor::next handing the speed, not the distance of one
\* period, to physical_to_odometry
TrajectoryPredictor_next_unscaled(self) ==
    LET inner == StatusPredictor_next(self.predictor)
        after == [self EXCEPT !.predictor = inner.self]
    IN  IF ~inner.ret.some
        THEN [self |-> after, ret |-> NoneTraj]
        ELSE [ self |-> after,
               ret  |-> [ some |-> TRUE,
                          duration |-> self.period,
                          odometry |-> physical_to_odometry(
                              self.model,
                              [ speed  |-> inner.ret.val.speed,
                                rudder |-> RudderDir(inner.ret.val.rudder) ]) ] ]

\* TrajectoryPredictor::next: the predictor after the call and the value
\* returned
TrajectoryPredictor_next(self) ==
    LET inner == StatusPredictor_next(self.predictor)
        after == [self EXCEPT !.predictor = inner.self]
    IN  IF ~inner.ret.some
        THEN [self |-> after, ret |-> NoneTraj]
        ELSE [ self |-> after,
               ret  |-> [ some |-> TRUE,
                          duration |-> self.period,
                          odometry |-> physical_to_odometry(
                              self.model,
                              [ speed  |-> FMul(inner.ret.val.speed, self.period),
                                rudder |-> RudderDir(inner.ret.val.rudder) ]) ] ]

-----------------------------------------------------------------------------
(* State *)

VARIABLES
    model,        \* the ChassisModel of the conversions and of the TrajectoryPredictor
    physical,     \* conversions: the Physical handed in
    velocity,     \* conversions: the Velocity handed in or computed
    wheels,       \* conversions: the Wheels computed
    restored,     \* conversions: the Physical converted back
    stage,        \* conversions: which of the values above are set
    optimizer,    \* StatusPredictor.optimizer
    rudder_step,  \* StatusPredictor.rudder_step
    current,      \* StatusPredictor.current
    target,       \* StatusPredictor.target
    op,           \* the operation that led to this state
    prev,         \* [current, target] as they were when the last next began
                  \* (as they are, after a write by the caller)
    ret,          \* what the last operation returned, if it was next
    calls,        \* calls of next so far (counted up to MaxCalls)
    nones,        \* those that returned None
    ticks,        \* convergence runs: applications of the update so far
    start,        \* convergence runs: the Physical the run began from
    aligned,      \* convergence runs: [tick, speed] when the rudder first was aligned
    period,       \* TrajectoryPredictor.period
    tret,         \* what the last call of TrajectoryPredictor::next returned
    odometry,     \* the Odometry accumulated with +=
    od_prev,      \* that Odometry before the last += or +
    od_rhs,       \* the right operand of the last += or +
    od_sum,       \* the last +: [some, self, rhs, value]
    od_ops        \* the number of += applied so far

convVars == <<physical, velocity, wheels, restored, stage>>
predVars == <<optimizer, rudder_step, current, target>>
histVars == <<op, prev, ret, calls, nones>>
convergeVars == <<ticks, start, aligned>>
trajVars == <<period, tret>>
odoVars == <<odometry, od_prev, od_rhs, od_sum, od_ops>>
vars == <<model, convVars, predVars, histVars, convergeVars, trajVars, odoVars>>

\* the chassis of the tests, ChassisModel::new(0.4, 0.3, 0.1)
TestChassis == ChassisModel_new(<<2, 5>>, <<3, 10>>, <<1, 10>>)

\* the values of the variables a specification does not use
NoVelocity == [v |-> NaN, w |-> NaN]
NoWheels == [left |-> NaN, right |-> NaN]
NoPhysical == [speed |-> NaN, rudder |-> NaN]

ConvIdle ==
    /\ physical = NoPhysical
    /\ velocity = NoVelocity
    /\ wheels = NoWheels
    /\ restored = NoPhysical
    /\ stage = "idle"

PredIdle ==
    /\ optimizer = Optimizer_new(PZero, PZero, PZero)
    /\ rudder_step = PZero
    /\ current = ZERO
    /\ target = RELEASED

HistIdle ==
    /\ op = "new"
    /\ prev = [current |-> ZERO, target |-> RELEASED]
    /\ ret = None
    /\ calls = 0
    /\ nones = 0

ConvergeIdle ==
    /\ ticks = 0
    /\ start = ZERO
    /\ aligned = [tick |-> -1, speed |-> PZero]

TrajIdle ==
    /\ period = PZero
    /\ tret = NoneTraj

NoSum == [some |-> FALSE, self |-> Odometry_ZERO, rhs |-> Odometry_ZERO,
          value |-> Odometry_ZERO]

OdoIdle ==
    /\ odometry = Odometry_ZERO
    /\ od_prev = Odometry_ZERO
    /\ od_rhs = Odometry_ZERO
    /\ od_sum = NoSum
    /\ od_ops = 0

-----------------------------------------------------------------------------
(* The conversions of the chassis model, applied to inputs drawn in Init *)

\* speeds in [-1, 1], both zeros among them
ConvSpeeds == {<<-1, 1>>, <<-1, 2>>, NZero, PZero, <<1, 2>>, One}

\* rudders in (-pi/2, pi/2) as directions (below and above the critical
\* rudder, to both sides), and NaN
ConvRudders ==
    {NaN, DirZero, <<24, 1>>, <<24, -1>>, <<63, 16>>, <<63, -16>>, <<21, 20>>,
     <<21, -20>>, <<1, 1>>, <<1, -1>>, <<16, 63>>, <<16, -63>>}

Zeros == {PZero, NZero}

ConvInit ==
    /\ model = TestChassis
    /\ \/ /\ stage = "physical"
          /\ physical \in [speed : ConvSpeeds, rudder : ConvRudders]
          /\ velocity = NoVelocity
       \/ /\ stage = "twist"
          /\ physical = NoPhysical
          /\ velocity \in [v : Zeros \cup {<<1, 2>>}, w : Zeros]
    /\ wheels = NoWheels
    /\ restored = NoPhysical
    /\ PredIdle /\ HistIdle /\ ConvergeIdle /\ TrajIdle /\ OdoIdle

\* physical_to_velocity of the Physical handed in
PhysicalToVelocity ==
    /\ stage = "physical"
    /\ velocity' = physical_to_velocity(model, physical)
    /\ stage' = "velocity"
    /\ UNCHANGED <<model, physical, wheels, restored>>
    /\ UNCHANGED <<predVars, histVars, convergeVars, trajVars, odoVars>>

\* velocity_to_physical of the Velocity computed or handed in
VelocityToPhysical ==
    /\ stage \in {"velocity", "twist"}
    /\ restored' = velocity_to_physical(model, velocity)
    /\ stage' = IF stage = "velocity" THEN "restored_velocity" ELSE "restored_twist"
    /\ UNCHANGED <<model, physical, velocity, wheels>>
    /\ UNCHANGED <<predVars, histVars, convergeVars, trajVars, odoVars>>

\* physical_to_wheels of the Physical handed in
PhysicalToWheels ==
    /\ stage = "physical"
    /\ wheels' = physical_to_wheels(model, physical)
    /\ stage' = "wheels"
    /\ UNCHANGED <<model, physical, velocity, restored>>
    /\ UNCHANGED <<predVars, histVars, convergeVars, trajVars, odoVars>>

\* wheels_to_physical of the Wheels computed
WheelsToPhysical ==
    /\ stage = "wheels"
    /\ restored' = wheels_to_physical(model, wheels)
    /\ stage' = "restored_wheels"
    /\ UNCHANGED <<model, physical, velocity, wheels>>
    /\ UNCHANGED <<predVars, histVars, convergeVars, trajVars, odoVars>>

ConvNext ==
    \/ PhysicalToVelocity
    \/ VelocityToPhysical
    \/ PhysicalToWheels
    \/ WheelsToPhysical

SpecConversions == ConvInit /\ [][ConvNext]_vars

-----------------------------------------------------------------------------
(* Claims about the conversions (SpecConversions) *)

\* rudders compared as the tests' float_equal compares them
rudder_equal(a, b) == (IsNaN(a) /\ IsNaN(b)) \/ (~IsNaN(a) /\ ~IsNaN(b) /\ a = b)

Restored == stage \in {"restored_velocity", "restored_wheels"}

RoundTripHolds ==
    /\ float_equal(physical.speed, restored.speed)
    /\ rudder_equal(physical.rudder, restored.rudder)

\* C5 as stated: every Physical with speed in [-1, 1] and rudder in
\* (-pi/2, pi/2) or NaN is reproduced by velocity_to_physical after
\* physical_to_velocity, and by wheels_to_physical after physical_to_wheels.
C5_RoundTripEverySpeed == Restored => RoundTripHolds

\* C5 amended: the round trips reproduce every Physical with speed # 0 and a
\* rudder in (-pi/2, pi/2), and Released (speed 0, rudder NaN); a stopped
\* command with a rudder and a moving one without come back as Released.
C5_RoundTripMoving ==
    /\ Restored /\ ~IsZero(physical.speed) /\ ~IsNaN(physical.rudder) => RoundTripHolds
    /\ Restored /\ IsZero(physical.speed) /\ IsNaN(physical.rudder) => RoundTripHolds
    /\ Restored /\ (IsZero(physical.speed) \/ IsNaN(physical.rudder))
          => IsZero(restored.speed) /\ IsNaN(restored.rudder)

C5_Witness ==
    /\ stage = "restored_wheels"
    /\ physical = [speed |-> <<-1, 2>>, rudder |-> <<24, -1>>]
    /\ restored = physical

\* C6: physical_to_velocity maps every Physical with a NaN rudder and the
\* Zero command to the twist (0, 0); velocity_to_physical maps the twist
\* (0, 0), whatever the signs of its zeros, to Released and never to Zero; so
\* a command that produces no motion comes back as Released.
C6_ReleasedConvention ==
    /\ stage = "velocity" /\ (IsNaN(physical.rudder) \/ PhysicalEq(physical, ZeroDir))
          => IsZero(velocity.v) /\ IsZero(velocity.w)
    /\ stage \in {"restored_twist", "restored_velocity"}
          /\ IsZero(velocity.v) /\ IsZero(velocity.w)
          => IsZero(restored.speed) /\ IsNaN(restored.rudder)
    /\ Restored /\ (IsNaN(physical.rudder) \/ IsZero(physical.speed))
          => IsZero(restored.speed) /\ IsNaN(restored.rudder)

C6_Witness ==
    /\ stage = "restored_twist"
    /\ velocity = [v |-> NZero, w |-> NZero]
    /\ IsZero(restored.speed)
    /\ IsNaN(restored.rudder)

Forward == FLt(PZero, physical.speed)
RudderLeftOfZero == ~IsNaN(physical.rudder) /\ physical.rudder[1] > 0 /\ physical.rudder[2] > 0
RudderRightOfZero == ~IsNaN(physical.rudder) /\ physical.rudder[1] > 0 /\ physical.rudder[2] < 0

-----------------------------------------------------------------------------
(* The StatusPredictor: constructed by new, its public fields written by   *)
(* the caller, stepped by next                                             *)

MaxCalls == 2

\* Physical values as the data model documents them: a finite speed in
\* [-1, 1] and a rudder in [-pi/2, pi/2] (in units of pi/12) or NaN
PredSpeeds == {<<-1, 1>>, <<-1, 2>>, PZero, <<2, 5>>, One}

PredRudders == {NaN, <<-3, 1>>, PZero, <<2, 1>>}

Physicals == [speed : PredSpeeds, rudder : PredRudders]

\* Optimizer::new(0.5, a, 40 ms) with a = 0, 1.2 (the test's) and 5 m/s^2:
\* speed steps 0, 0.048 and 0.2
Optimizers == {Optimizer_new(<<1, 2>>, a, <<1, 25>>) : a \in {PZero, <<6, 5>>, <<5, 1>>}}

RudderSteps == {<<1, 2>>, <<5, 2>>}

Self == [rudder_step |-> rudder_step, optimizer |-> optimizer,
         current |-> current, target |-> target]

Init ==
    /\ \E o \in Optimizers, r \in RudderSteps :
          LET new == StatusPredictor_new(o, r)
          IN  /\ optimizer = new.optimizer
              /\ rudder_step = new.rudder_step
              /\ current = new.current
              /\ target = new.target
    /\ HistIdle
    /\ model = TestChassis
    /\ ConvIdle /\ ConvergeIdle /\ TrajIdle /\ OdoIdle

\* the caller writes the public field target
SetTarget ==
    /\ calls < MaxCalls
    /\ op # "set_target"
    /\ \E t \in Physicals :
          /\ target' = t
          /\ prev' = [current |-> current, target |-> t]
    /\ op' = "set_target"
    /\ ret' = None
    /\ UNCHANGED <<optimizer, rudder_step, current, calls, nones>>
    /\ UNCHANGED <<model, convVars, convergeVars, trajVars, odoVars>>

\* the caller writes the public field current before stepping, as
\* test_status_predictor does
SetCurrent ==
    /\ calls = 0
    /\ op # "set_current"
    /\ \E c \in Physicals :
          /\ current' = c
          /\ prev' = [current |-> c, target |-> target]
    /\ op' = "set_current"
    /\ ret' = None
    /\ UNCHANGED <<optimizer, rudder_step, target, calls, nones>>
    /\ UNCHANGED <<model, convVars, convergeVars, trajVars, odoVars>>

\* one call of StatusPredictor::next, with the record of the call
CallNext ==
    LET r == StatusPredictor_next(Self)
    IN  /\ current' = r.self.current
        /\ target' = r.self.target
        /\ optimizer' = r.self.optimizer
        /\ rudder_step' = r.self.rudder_step
        /\ ret' = r.ret
        /\ op' = "next"
        /\ prev' = [current |-> current, target |-> target]
        /\ calls' = IF calls < MaxCalls THEN calls + 1 ELSE calls
        /\ nones' = IF ~r.ret.some /\ nones < MaxCalls THEN nones + 1 ELSE nones

Step ==
    /\ CallNext
    /\ UNCHANGED <<model, convVars, convergeVars, trajVars, odoVars>>

Next ==
    \/ SetTarget
    \/ SetCurrent
    \/ calls < MaxCalls /\ Step

Spec == Init /\ [][Next]_vars

-----------------------------------------------------------------------------
(* Claims about StatusPredictor::next (Spec) *)

\* C2: next returns None exactly when the target is released and the current
\* state static, and then leaves current and target as they were; otherwise
\* it returns Some(current), so that a non-released target always yields; a
\* freshly constructed predictor yields nothing; next never writes target.
C2_NoneIffReleasedAndStatic ==
    op = "next" =>
        /\ ~ret.some <=> (is_released(prev.target) /\ is_static(prev.current))
        /\ ~ret.some => current = prev.current
        /\ ret.some => ret.val = current
        /\ target = prev.target
        /\ ~is_released(prev.target) => ret.some
        /\ prev = [current |-> ZERO, target |-> RELEASED] => ~ret.some

\* a predictor that returned None yields again once the target is not released
C2_Witness ==
    /\ op = "next"
    /\ nones >= 1
    /\ ret.some
    /\ ~is_released(target)

\* |a - b| <= speed_step
WithinSpeedStep(a, b) == FLe(FAbs(FSub(a, b)), optimizer.speed_step)

\* C3: whatever the target (NaN rudders and both signs of speed included),
\* optimize_speed(target, current) is within speed_step of current.speed at
\* every current the calls reach, and so is every speed next yields of the
\* speed before the call.
C3_SpeedStepBound ==
    /\ calls < MaxCalls =>
          \A t \in Physicals :
             WithinSpeedStep(optimize_speed(optimizer, t, current), current.speed)
    /\ op = "next" /\ ret.some => WithinSpeedStep(ret.val.speed, prev.current.speed)

\* a step cut short by the limit, from a current with a NaN rudder
C3_Witness ==
    /\ op = "next"
    /\ ret.some
    /\ IsNaN(prev.current.rudder)
    /\ FLt(PZero, optimizer.speed_step)
    /\ FEq(FAbs(FSub(current.speed, prev.current.speed)), optimizer.speed_step)
    /\ ~FEq(current.speed, prev.target.speed)

\* the last operation was a next that assigned current
Updated == op = "next" /\ ret.some /\ ~PhysicalEq(prev.current, prev.target)

\* x lies between a and b, ends included
Between(a, x, b) == FLe(FMin(a, b), x) /\ FLe(x, FMax(a, b))

SlewLimited(old, new, tgt) ==
    /\ Between(old, new, tgt)
    /\ FLe(FAbs(FSub(new, old)), rudder_step)
    /\ FLe(FAbs(FSub(tgt, old)), rudder_step) => FEq(new, tgt)

\* C10 as stated: on every next that updates current the new rudder lies
\* between the old rudder and the target's, within rudder_step of the old
\* one, and equals the target's once that is within rudder_step; with a NaN
\* target rudder the rudder is left as it was.
C10_RudderSlewLimitedAlways ==
    Updated =>
        IF IsNaN(prev.target.rudder) THEN current.rudder = prev.current.rudder
        ELSE SlewLimited(prev.current.rudder, current.rudder, prev.target.rudder)

\* C10 amended: that holds when the old rudder is a number; a current whose
\* rudder is NaN keeps the NaN rudder on every step, whatever the target.
C10_RudderSlewLimited ==
    Updated =>
        IF IsNaN(prev.target.rudder) \/ IsNaN(prev.current.rudder)
        THEN current.rudder = prev.current.rudder
        ELSE SlewLimited(prev.current.rudder, current.rudder, prev.target.rudder)

\* a step that ends on the target's rudder, closer than rudder_step
C10_Witness ==
    /\ Updated
    /\ ~IsNaN(prev.current.rudder)
    /\ ~IsNaN(prev.target.rudder)
    /\ FLt(PZero, FAbs(FSub(prev.target.rudder, prev.current.rudder)))
    /\ FLt(FAbs(FSub(prev.target.rudder, prev.current.rudder)), rudder_step)
    /\ FEq(current.rudder, prev.target.rudder)

-----------------------------------------------------------------------------
(* The predictor drained under a released target (SpecReleased) *)

MaxTicks == 26

DrainSpeeds == {<<-1, 1>>, <<-1, 2>>, <<-1, 5>>, NZero, PZero, <<1, 10>>, <<2, 5>>, One}

DrainRudders == {NaN, <<-6, 1>>, PZero, <<2, 1>>}

\* the optimizers whose speed_step is positive
Accelerating == {o \in Optimizers : FLt(PZero, o.speed_step)}

\* any documented current, the target released from the start and kept so
ReleasedInit ==
    /\ optimizer \in Accelerating
    /\ rudder_step \in RudderSteps
    /\ current \in [speed : DrainSpeeds, rudder : DrainRudders]
    /\ target = RELEASED
    /\ start = current
    /\ ticks = 0
    /\ aligned = [tick |-> -1, speed |-> PZero]
    /\ HistIdle
    /\ model = TestChassis
    /\ ConvIdle /\ TrajIdle /\ OdoIdle

\* the loop `while let Some(_) = pre.next()`: ticks counts the states yielded
Drain ==
    /\ CallNext
    /\ ticks' = IF ret'.some /\ ticks < MaxTicks THEN ticks + 1 ELSE ticks
    /\ UNCHANGED <<start, aligned>>
    /\ UNCHANGED <<model, convVars, trajVars, odoVars>>

SpecReleased == ReleasedInit /\ [][Drain]_vars /\ WF_vars(Drain)

\* C1: with the target released for the whole run and speed_step > 0, the
\* calls of next from any current state come to one that returns None.
C1_ReleasedTerminates == <>(op = "next" /\ ~ret.some)

\* the run of the test: from 0.4 m/s with a step of 0.048, nine states are
\* yielded and the tenth call returns None
C1_Witness ==
    /\ op = "next"
    /\ ~ret.some
    /\ start = [speed |-> <<2, 5>>, rudder |-> PZero]
    /\ optimizer.speed_step = <<6, 125>>
    /\ ticks = 9
    /\ is_static(current)

-----------------------------------------------------------------------------
(* The predictor run towards a fixed target (SpecConverge) *)

ConvergeSpeeds == {<<-1, 1>>, <<-1, 2>>, PZero, <<2, 5>>}

ConvergePhysicals == [speed : ConvergeSpeeds, rudder : PredRudders]

\* the rudder has reached the target's, or the target has none
RudderAligned(c, t) == IsNaN(t.rudder) \/ FEq(c.rudder, t.rudder)

\* rudder steps of pi/12 and 5 pi/24 per tick
ConvergeRudderSteps == {One, <<5, 2>>}

ConvergeInit ==
    /\ optimizer \in Accelerating
    /\ rudder_step \in ConvergeRudderSteps
    /\ current \in ConvergePhysicals
    /\ target \in ConvergePhysicals
    /\ start = current
    /\ ticks = 0
    /\ aligned = IF RudderAligned(current, target)
                 THEN [tick |-> 0, speed |-> current.speed]
                 ELSE [tick |-> -1, speed |-> PZero]
    /\ HistIdle
    /\ model = TestChassis
    /\ ConvIdle /\ TrajIdle /\ OdoIdle

\* optimize_speed and optimize_rudder applied once more and fed back into
\* current, the target staying as it is; aligned records the tick after
\* which the rudder was first aligned and the speed at that point
Converge ==
    /\ ticks < MaxTicks
    /\ current' = StatusPredictor_update(Self).current
    /\ UNCHANGED <<optimizer, rudder_step, target, histVars>>
    /\ ticks' = ticks + 1
    /\ aligned' = IF aligned.tick = -1 /\ RudderAligned(current', target')
                  THEN [tick |-> ticks', speed |-> current'.speed]
                  ELSE aligned
    /\ UNCHANGED start
    /\ UNCHANGED <<model, convVars, trajVars, odoVars>>

SpecConverge == ConvergeInit /\ [][Converge]_vars

\* ceil(x / y) for x >= 0 and y > 0
CeilDiv(x, y) ==
    LET q == FDiv(x, y)
    IN  IF IsZero(q) THEN 0 ELSE (q[1] + q[2] - 1) \div q[2]

\* ceil(|to - from| / speed_step)
SpeedSteps(from, to) == CeilDiv(FAbs(FSub(to, from)), optimizer.speed_step)

\* the steps the rudder needs from the start to the target's
AlignSteps ==
    IF IsNaN(target.rudder) THEN 0
    ELSE CeilDiv(FAbs(FSub(target.rudder, start.rudder)), rudder_step)

\* the run of the test: 0.4 m/s, target released, speed_step 0.048
TestRun ==
    /\ start = [speed |-> <<2, 5>>, rudder |-> PZero]
    /\ target = RELEASED
    /\ optimizer.speed_step = <<6, 125>>

\* 0.4, 0.352, 0.304, ... and 0 at the ninth tick, not before
TestRunSpeeds ==
    /\ ticks = 1 => current.speed = <<44, 125>>
    /\ ticks = 2 => current.speed = <<38, 125>>
    /\ ticks < 9 => ~IsZero(current.speed)
    /\ ticks >= 9 => IsZero(current.speed)

AlignedGoal ==
    IF IsNaN(target.rudder) THEN target.speed
    ELSE FMul(target.speed,
              FAdd(FMul(FSub(One, FDiv(FAbs(target.rudder), FRAC_PI_2)),
                        FSub(One, optimizer.angular_attenuation)),
                   optimizer.angular_attenuation))

-----------------------------------------------------------------------------
(* Odometry accumulated from Odometry::ZERO (SpecOdometry) *)

MaxOps == 3

\* twists of one period: forward and backward, turning left and right,
\* turning on the spot, and no motion (which converts to Odometry::ZERO)
OdoVelocities ==
    { [v |-> <<2, 5>>,  w |-> <<2, 3>>],
      [v |-> <<-3, 5>>, w |-> <<-1, 1>>],
      [v |-> <<2, 5>>,  w |-> PZero],
      [v |-> <<-3, 5>>, w |-> NZero],
      [v |-> PZero,     w |-> <<2, 3>>],
      [v |-> PZero,     w |-> PZero] }

OdometryInit ==
    /\ OdoIdle
    /\ velocity = NoVelocity
    /\ physical = NoPhysical
    /\ wheels = NoWheels
    /\ restored = NoPhysical
    /\ stage = "idle"
    /\ model = TestChassis
    /\ PredIdle /\ HistIdle /\ ConvergeIdle /\ TrajIdle

\* odometry += Odometry::from(vel)
AddAssign ==
    /\ od_ops < MaxOps
    /\ \E vel \in OdoVelocities :
          /\ velocity' = vel
          /\ od_rhs' = Odometry_from(vel)
          /\ odometry' = Odometry_add_assign(odometry, Odometry_from(vel))
    /\ od_prev' = odometry
    /\ od_ops' = od_ops + 1
    /\ op' = "add_assign"
    /\ UNCHANGED od_sum
    /\ UNCHANGED <<physical, wheels, restored, stage, model>>
    /\ UNCHANGED <<predVars, prev, ret, calls, nones, convergeVars, trajVars>>

\* odometry + Odometry::from(vel), the sum kept aside as the test does
Add ==
    /\ od_ops < MaxOps
    /\ op # "add"
    /\ \E vel \in OdoVelocities :
          /\ velocity' = vel
          /\ od_rhs' = Odometry_from(vel)
          /\ od_sum' = [ some  |-> TRUE,
                         self  |-> odometry,
                         rhs   |-> Odometry_from(vel),
                         value |-> Odometry_add(odometry, Odometry_from(vel)) ]
    /\ od_prev' = odometry
    /\ op' = "add"
    /\ UNCHANGED <<odometry, od_ops>>
    /\ UNCHANGED <<physical, wheels, restored, stage, model>>
    /\ UNCHANGED <<predVars, prev, ret, calls, nones, convergeVars, trajVars>>

OdometryNext == AddAssign \/ Add

SpecOdometry == OdometryInit /\ [][OdometryNext]_vars

\* C8: from Odometry::ZERO, under += of increments built by From<Velocity>,
\* s and a are >= 0 and never decrease, each += adding |v| to s and |w| to
\* a; ZERO is a left and a right identity of +=; a + b is the record a += b
\* leaves in a, and + leaves its operand as it was.
C8_OdometryAccumulates ==
    /\ FLe(PZero, odometry.s) /\ FLe(PZero, odometry.a)
    /\ op = "add_assign" =>
          /\ FLe(od_prev.s, odometry.s) /\ FLe(od_prev.a, odometry.a)
          /\ FEq(odometry.s, FAdd(od_prev.s, FAbs(velocity.v)))
          /\ FEq(odometry.a, FAdd(od_prev.a, FAbs(velocity.w)))
          /\ od_prev = Odometry_ZERO => OdometryEq(odometry, od_rhs)
          /\ od_rhs = Odometry_ZERO => OdometryEq(odometry, od_prev)
          /\ od_sum.some /\ od_sum.self = od_prev /\ od_sum.rhs = od_rhs
                => od_sum.value = odometry
    /\ op = "add" =>
          /\ odometry = od_prev
          /\ od_sum.self = od_prev /\ od_sum.rhs = od_rhs

\* od1 + od2 and then od1 += od2 with a backward, turning od2 on top of a
\* travelled od1: the same record, the distance grown by |v|
C8_Witness ==
    /\ op = "add_assign"
    /\ od_ops = 2
    /\ od_sum.some /\ od_sum.self = od_prev /\ od_sum.rhs = od_rhs
    /\ od_sum.value = odometry
    /\ velocity = [v |-> <<-3, 5>>, w |-> <<-1, 1>>]
    /\ FLt(od_prev.s, odometry.s)
    /\ FLt(PZero, od_prev.a)

-----------------------------------------------------------------------------
(* The TrajectoryPredictor stepped under targets set by the caller         *)
(* (SpecTrajectory)                                                        *)

\* control periods of 40 ms and 0.5 s
Periods == {<<1, 25>>, <<1, 2>>}

\* rudder steps of pi/12 and pi/6 per tick, which keep the rudder on the
\* multiples of pi/12
TrajRudderSteps == {One, Two}

TrajSpeeds == {<<-1, 2>>, PZero, <<2, 5>>}

TrajRudders == {NaN, <<-3, 1>>, PZero, <<2, 1>>}

TrajSelf == [period |-> period, model |-> model, predictor |-> Self]

TrajInit ==
    /\ period \in Periods
    /\ model = TestChassis
    /\ \E o \in Accelerating, r \in TrajRudderSteps :
          LET new == StatusPredictor_new(o, r)
          IN  /\ optimizer = new.optimizer
              /\ rudder_step = new.rudder_step
              /\ current = new.current
              /\ target = new.target
    /\ tret = NoneTraj
    /\ op = "new"
    /\ prev = [current |-> ZERO, target |-> RELEASED, period |-> period, model |-> model]
    /\ ret = None
    /\ calls = 0
    /\ nones = 0
    /\ ConvIdle /\ ConvergeIdle /\ OdoIdle

\* the caller writes predictor.target
TrajSetTarget ==
    /\ calls < MaxCalls
    /\ op # "set_target"
    /\ \E t \in [speed : TrajSpeeds, rudder : TrajRudders] :
          /\ target' = t
          /\ prev' = [current |-> current, target |-> t, period |-> period, model |-> model]
    /\ op' = "set_target"
    /\ ret' = None
    /\ tret' = NoneTraj
    /\ UNCHANGED <<optimizer, rudder_step, current, calls, nones, period, model>>
    /\ UNCHANGED <<convVars, convergeVars, odoVars>>

\* one call of TrajectoryPredictor::next; ret keeps what the inner
\* StatusPredictor::next returned
TrajNext ==
    /\ calls < MaxCalls
    /\ LET r == TrajectoryPredictor_next(TrajSelf)
       IN  /\ period' = r.self.period
           /\ model' = r.self.model
           /\ current' = r.self.predictor.current
           /\ target' = r.self.predictor.target
           /\ optimizer' = r.self.predictor.optimizer
           /\ rudder_step' = r.self.predictor.rudder_step
           /\ tret' = r.ret
    /\ ret' = StatusPredictor_next(Self).ret
    /\ op' = "traj_next"
    /\ prev' = [current |-> current, target |-> target, period |-> period, model |-> model]
    /\ calls' = calls + 1
    /\ nones' = IF ~tret'.some /\ nones < MaxCalls THEN nones + 1 ELSE nones
    /\ UNCHANGED <<convVars, convergeVars, odoVars>>

TrajNextStep == TrajSetTarget \/ TrajNext

SpecTrajectory == TrajInit /\ [][TrajNextStep]_vars

\* C9: a call of TrajectoryPredictor::next advances the inner predictor by
\* one step of StatusPredictor::next and returns None exactly when that
\* does; otherwise it returns the period and the odometry of the command
\* with the yielded speed times the period and the yielded rudder: for
\* rudder 0 the distance |speed * period| and no angle, for rudder NaN
\* neither; period, model and target stay as they were.
C9_TrajectoryMirrorsStatus ==
    op = "traj_next" =>
        LET inner == StatusPredictor_next(
                         [ rudder_step |-> rudder_step, optimizer |-> optimizer,
                           current |-> prev.current, target |-> prev.target ])
            dist == FMul(current.speed, period)
        IN  /\ current = inner.self.current
            /\ ret = inner.ret
            /\ tret.some <=> ret.some
            /\ tret.some =>
                  /\ tret.duration = period
                  /\ ret.val = current
                  /\ tret.odometry = Odometry_from(physical_to_velocity(model,
                         [speed |-> dist, rudder |-> RudderDir(current.rudder)]))
                  /\ IsZero(current.rudder) =>
                        /\ FEq(tret.odometry.s, FAbs(dist))
                        /\ FEq(tret.odometry.a, PZero)
                  /\ IsNaN(current.rudder) =>
                        /\ FEq(tret.odometry.s, PZero)
                        /\ FEq(tret.odometry.a, PZero)
            /\ period = prev.period
            /\ model = prev.model
            /\ target = prev.target

\* a straight increment of a moving command, after a call that returned None
C9_Witness ==
    /\ op = "traj_next"
    /\ nones >= 1
    /\ tret.some
    /\ IsZero(current.rudder)
    /\ ~IsZero(current.speed)
    /\ FEq(tret.odometry.s, FAbs(FMul(current.speed, period)))
    /\ FLt(PZero, tret.odometry.s)

-----------------------------------------------------------------------------
(* Optimizer::optimize_speed applied to inputs drawn in Init (SpecOptimize) *)

\* angular_attenuation 0, 0.5 and 1, with the speed steps 0.048 and 0.2
OptAttenuations == {PZero, <<1, 2>>, One}

OptOptimizers ==
    {Optimizer_new(k, a, <<1, 25>>) : k \in OptAttenuations, a \in {<<6, 5>>, <<5, 1>>}}

\* current speeds in [-1, 1], forward and reverse, both zeros among them
OptCurrentSpeeds ==
    {<<-1, 1>>, <<-3, 4>>, <<-1, 2>>, <<-1, 4>>, NZero, PZero, <<2, 5>>, One}

\* rudders in [-pi/2, pi/2], and NaN
OptRudders == {NaN, <<-6, 1>>, <<-3, 1>>, PZero, <<2, 1>>, <<6, 1>>}

OptimizeInit ==
    /\ optimizer \in OptOptimizers
    /\ rudder_step = PZero
    /\ current \in [speed : OptCurrentSpeeds, rudder : OptRudders]
    /\ target \in [speed : PredSpeeds, rudder : OptRudders]
    /\ HistIdle
    /\ model = TestChassis
    /\ ConvIdle /\ ConvergeIdle /\ TrajIdle /\ OdoIdle

\* the caller applies optimize_speed to (target, current) and takes the
\* speed returned as the speed of current; prev keeps the arguments
OptimizeSpeed ==
    /\ op = "new"
    /\ current' = [current EXCEPT !.speed = optimize_speed(optimizer, target, current)]
    /\ prev' = [current |-> current, target |-> target]
    /\ op' = "optimize_speed"
    /\ UNCHANGED <<optimizer, rudder_step, target, ret, calls, nones>>
    /\ UNCHANGED <<model, convVars, convergeVars, trajVars, odoVars>>

SpecOptimize == OptimizeInit /\ [][OptimizeSpeed]_vars

\* the arguments of the last optimize_speed give a positive width (pi/6 at
\* rest, pi/2 at |speed| = 1) and an aim that is target.speed times a factor
\* in [0, 1], so not above |target.speed| and not of the opposite sign
OnlyAttenuates ==
    LET w == optimize_speed_width(prev.current)
        f == optimize_speed_factor(optimizer, prev.target, prev.current)
        aim == attenuated_speed(optimizer, prev.target, prev.current)
    IN  /\ FLt(PZero, w)
        /\ IsZero(prev.current.speed) => FEq(w, FRAC_PI_6)
        /\ FEq(FAbs(prev.current.speed), One) => FEq(w, FRAC_PI_2)
        /\ FLe(PZero, f) /\ FLe(f, One)
        /\ FEq(aim, FMul(prev.target.speed, f))
        /\ FLe(FAbs(aim), FAbs(prev.target.speed))
        /\ ~FLt(FMul(aim, prev.target.speed), PZero)

\* C11 as stated: for angular_attenuation in [0, 1], a target rudder in
\* [-pi/2, pi/2] and every current with a speed in [-1, 1], forward or
\* reverse, the width is positive (pi/6 at rest, pi/2 at |speed| = 1) and the
\* speed optimize_speed aims at is target.speed times a factor in [0, 1].
C11_OnlyAttenuates ==
    op = "optimize_speed" /\ ~IsNaN(prev.target.rudder) => OnlyAttenuates

\* C11 for the speeds where it holds: with current.speed >= 0 (forward or at
\* rest) the width is in [pi/6, pi/2] and the aim is target.speed times a
\* factor in [0, 1].
C11_AttenuatesForward ==
    op = "optimize_speed" /\ ~IsNaN(prev.target.rudder)
        /\ FLe(PZero, prev.current.speed) => OnlyAttenuates

\* a reverse current whose width is negative and whose aim is above
\* |target.speed|
C11_Witness ==
    /\ op = "optimize_speed"
    /\ ~IsNaN(prev.target.rudder)
    /\ FLt(prev.current.speed, PZero)
    /\ FLt(optimize_speed_width(prev.current), PZero)
    /\ FLt(FAbs(prev.target.speed),
           FAbs(attenuated_speed(optimizer, prev.target, prev.current)))

-----------------------------------------------------------------------------
(* The predictor started at rest under a fixed target that is not released *)
(* (SpecAlign)                                                             *)

\* a stopped predictor, its rudder anywhere (NaN too), and a target with a
\* rudder, kept for the whole run
AlignInit ==
    /\ optimizer \in OptOptimizers
    /\ rudder_step \in ConvergeRudderSteps
    /\ current \in [speed : {PZero, NZero}, rudder : OptRudders]
    /\ target \in [speed : PredSpeeds, rudder : OptRudders \ {NaN}]
    /\ start = current
    /\ ticks = 0
    /\ aligned = [tick |-> -1, speed |-> PZero]
    /\ HistIdle
    /\ model = TestChassis
    /\ ConvIdle /\ TrajIdle /\ OdoIdle

\* one more call of next; ticks counts the calls
AlignNext ==
    /\ ticks < MaxTicks
    /\ CallNext
    /\ ticks' = ticks + 1
    /\ UNCHANGED <<start, aligned>>
    /\ UNCHANGED <<model, convVars, trajVars, odoVars>>

SpecAlign == AlignInit /\ [][AlignNext]_vars

\* |t.rudder - c.rudder| >= pi/6
RudderFar(c, t) == FLe(FRAC_PI_6, optimize_speed_diff(t, c))

\* C12: from a stopped predictor under a fixed target that is not released,
\* every command next yields has speed 0 whenever the step began with
\* |target.rudder - current.rudder| >= pi/6, and the speed leaves 0 only on
\* a step that began with the rudder within pi/6 of the target's.
C12_NoMotionBeforeAligned ==
    op = "next" /\ ret.some =>
        /\ RudderFar(prev.current, prev.target) => IsZero(ret.val.speed)
        /\ IsZero(prev.current.speed) /\ ~IsZero(ret.val.speed)
              => FLt(optimize_speed_diff(prev.target, prev.current), FRAC_PI_6)

\* a run that began with the rudder far from the target's, yielded speed 0
\* for at least three steps and then the first speed that is not 0
C12_Witness ==
    /\ op = "next"
    /\ ticks >= 4
    /\ RudderFar(start, target)
    /\ IsZero(prev.current.speed)
    /\ ret.some
    /\ ~IsZero(ret.val.speed)

=============================================================================
